---- MODULE Spec2Model ----
(***************************************************************************)
(* Model of src/alos.py: the Alos proof-of-work client.                    *)
(*                                                                         *)
(* Text is modelled line by line: a page (or a decoded payload) is a       *)
(* sequence of items, one statement per line.  An item is either a         *)
(* declaration  `kw name = "val";`  or a quoted base64 blob, possibly      *)
(* inside a `//` comment.  Names are sequences of letters, literals are    *)
(* sequences of character codes.                                           *)
(***************************************************************************)
EXTENDS Integers, Sequences, FiniteSets, TLC

\* ------------------------------------------------------------------ bounds
MaxDifficulty == 3      \* difficulties 0..MaxDifficulty are configured
MaxNonce == 8           \* the search loop is followed up to this nonce
MaxRequests == 2        \* request() calls started on the instance
MaxDecls == 4           \* declarations of a surface given to _discover_vars
MaxItems == 3           \* lines of a text given to the extraction

\* --------------------------------------------------------- text vocabulary
None == <<>>

B64Alphabet == (65..90) \cup (97..122) \cup (48..57) \cup {43, 47, 61}

Lit(c, n) == [i \in 1..n |-> c]

LitA == Lit(65, 20)
LitB == Lit(66, 20)
LitC == Lit(67, 21)
LitD == Lit(68, 22)
LitShort == Lit(70, 5)
LitBang == Lit(33, 20)

Decl(kw, name, val) ==
    [kind |-> "decl", kw |-> kw, name |-> name, val |-> val,
     cm |-> FALSE, inv |-> FALSE, ok |-> FALSE, dec |-> <<>>]

Blob(inv, ok, dec) ==
    [kind |-> "blob", kw |-> "", name |-> <<>>, val |-> <<>>,
     cm |-> FALSE, inv |-> inv, ok |-> ok, dec |-> dec]

\* ------------------------------------------------------------ _discover_vars
\* const\s+(\w+)\s*=\s*['"]([A-Za-z0-9+/=]{20,})['"]
MinLiteralLen == 20

Qualifies(item) ==
    /\ item.kind = "decl"
    /\ item.kw = "const"
    /\ Len(item.name) > 0
    /\ Len(item.val) >= MinLiteralLen
    /\ \A i \in 1..Len(item.val) : item.val[i] \in B64Alphabet

FindPairs(text) == SelectSeq(text, Qualifies)

GroupOf(pairs, length) == SelectSeq(pairs, LAMBDA p : Len(p.val) = length)

Min(S) == CHOOSE x \in S : \A y \in S : x <= y

\* variant: a group needs more than two members
GroupSizeWantedMut(items) == Len(items) > 2

\* variant: a group of at least two members is taken
GroupSizeWantedLoose(items) == Len(items) >= 2

\* line 175
GroupSizeWanted(items) == Len(items) = 2

_discover_vars(html) ==
    LET pairs == FindPairs(html)
        hits == {i \in 1..Len(pairs) :
                    GroupSizeWanted(GroupOf(pairs, Len(pairs[i].val)))}
    IN  IF hits = {} THEN <<None, None>>
        ELSE LET items == GroupOf(pairs, Len(pairs[Min(hits)].val))
             IN  <<items[1].name, items[2].name>>

\* --------------------------------------------------------------- _solve_proof
RECURSIVE Decimal(_)
Decimal(n) == IF n < 10 THEN <<48 + n>>
              ELSE Decimal(n \div 10) \o <<48 + (n % 10)>>

\* the bytes from position i on are absorbed one by one
RECURSIVE FoldFrom(_, _, _)
FoldFrom(bytes, i, h) ==
    IF i > Len(bytes) THEN h
    ELSE FoldFrom(bytes, i + 1, (h * 6 + bytes[i]) % 61)

Fold(bytes, h) == FoldFrom(bytes, 1, h)

\* stand-in for hashlib.sha256(...).hexdigest(): a deterministic digest of
\* two hex digits
HexDigest(bytes) == LET h == Fold(bytes, 7) IN <<h % 4, (h \div 4) % 4>>

Prefix(d) == [i \in 1..d |-> 0]

StartsWith(s, p) == Len(p) <= Len(s) /\ SubSeq(s, 1, Len(p)) = p

\* variant: the zeros are looked for at the end of the digest
ProofOkMut(challenge, n, d) ==
    LET digest == HexDigest(challenge \o Decimal(n))
    IN  /\ d <= Len(digest)
        /\ SubSeq(digest, Len(digest) - d + 1, Len(digest)) = Prefix(d)

\* lines 183-184: digest.startswith(self.prefix)
ProofOk(challenge, n, d) ==
    StartsWith(HexDigest(challenge \o Decimal(n)), Prefix(d))

\* ------------------------------------------- _extract_payload_with_challenge
\* re.sub(r"//.*", "", ...) and re.sub(r"/\*.*?\*/", "", ...)
\* re.sub(r"//.*", "", ...) then re.sub(r"/\*.*?\*/", "", ...): a comment
\* line is emptied, its line break stays; nothing tells a comment from a
\* "//" inside a quoted literal, so such a declaration loses the rest of its
\* line, closing quote included
BlankLine ==
    [kind |-> "blank", kw |-> "", name |-> <<>>, val |-> <<>>,
     cm |-> FALSE, inv |-> FALSE, ok |-> FALSE, dec |-> <<>>]

Slash == 47

SlashesAt(val) ==
    {i \in 1..(Len(val) - 1) : val[i] = Slash /\ val[i + 1] = Slash}

StripLine(item) ==
    IF item.cm THEN BlankLine
    ELSE IF item.kind = "decl" /\ SlashesAt(item.val) # {}
         THEN [item EXCEPT !.kind = "cut",
                           !.val = SubSeq(item.val, 1,
                                          Min(SlashesAt(item.val)) - 1)]
         ELSE item

StripComments(text) == [i \in 1..Len(text) |-> StripLine(text[i])]

MinBlobLen == 30

IsB64(val, least) ==
    /\ Len(val) >= least
    /\ \A i \in 1..Len(val) : val[i] \in B64Alphabet

KwLen(kw) == IF kw = "const" THEN 5 ELSE 3

\* characters of the line  `kw name = "val";`  with its line break, of what
\* is left of it after a cut, or of an emptied line (a blob line is never
\* part of a decoded payload that is scored)
LineLen(item) ==
    IF item.kind = "blank" THEN 1
    ELSE IF item.kind = "cut"
         THEN KwLen(item.kw) + Len(item.name) + Len(item.val) + 6
         ELSE KwLen(item.kw) + Len(item.name) + Len(item.val) + 8

RECURSIVE TextLen(_)
TextLen(text) == IF text = <<>> THEN 0
                 ELSE LineLen(Head(text)) + TextLen(Tail(text))

\* the decoded text of every candidate blob that decodes: the blobs of
\* the alias[..][..]("...") calls, or, when there is none, every quoted
\* base64 literal of at least 30 characters (a declaration's literal decodes
\* to text without any declaration)
CandidateBlobs(html) ==
    LET clean == StripComments(html)
        invoked == {i \in 1..Len(clean) :
                       clean[i].kind = "blob" /\ clean[i].inv}
        quoted == {i \in 1..Len(clean) :
                      \/ clean[i].kind = "blob"
                      \/ (clean[i].kind = "decl" /\ IsB64(clean[i].val, MinBlobLen))}
        chosen == IF invoked # {} THEN invoked ELSE quoted
    IN  {clean[i].dec :
            i \in {j \in chosen : clean[j].kind = "decl" \/ clean[j].ok}}

\* decoded_clean of lines 154-155
Candidates(html) == {StripComments(dec) : dec \in CandidateBlobs(html)}

DeclCount(text) == Len(FindPairs(text))

MinDeclCount == 2

\* variant: the length weighs more than the number of declarations
ScoreMut(text) == DeclCount(text) + TextLen(text) * 10000

Score(text) == DeclCount(text) * 10000 + TextLen(text)

\* the loop runs over set(blobs), whose order is not fixed: among blobs of
\* equal best score any one can be kept
\* variant: the text handed back when no blob is kept is the cleaned one
FallbackMut(html) == StripComments(html)

\* line 167: `best_payload or html`
Fallback(html) == html

ExtractResults(html) ==
    LET qual == {t \in Candidates(html) : ~(DeclCount(t) < MinDeclCount)}
        best == {t \in qual : \A u \in qual : Score(u) <= Score(t)}
    IN  IF best = {} THEN {Fallback(html)} ELSE best

\* ----------------------------------------------------- value extraction regex
\* re.search(rf"{name}\s*=\s*['\"]([^"\n]+)['\"]", payload): the name is not
\* anchored, so it matches at the end of any declared name
IsSuffix(s, t) ==
    Len(s) <= Len(t) /\ SubSeq(t, Len(t) - Len(s) + 1, Len(t)) = s

ValueMatches(name, item) ==
    /\ item.kind = "decl"
    /\ IsSuffix(name, item.name)
    /\ Len(item.val) > 0

SearchValue(name, payload) ==
    LET hits == {i \in 1..Len(payload) : ValueMatches(name, payload[i])}
    IN  IF hits = {} THEN None ELSE payload[Min(hits)].val

\* ------------------------------------------------------------------- URLs
\* variant: a URL that does not match is used as its own origin
OriginOfMut(url) ==
    IF /\ Len(url) >= 3
       /\ url[1] \in {"http", "https"}
       /\ url[2] = "://"
       /\ url[3] # "/"
    THEN LET stops == {i \in 4..Len(url) : url[i] = "/"}
         IN  IF stops = {} THEN url ELSE SubSeq(url, 1, Min(stops) - 1)
    ELSE url

\* re.match(r"^(https?://[^/]+)", url).group(1); None when there is no match
OriginOf(url) ==
    IF /\ Len(url) >= 3
       /\ url[1] \in {"http", "https"}
       /\ url[2] = "://"
       /\ url[3] # "/"
    THEN LET stops == {i \in 4..Len(url) : url[i] = "/"}
         IN  IF stops = {} THEN url ELSE SubSeq(url, 1, Min(stops) - 1)
    ELSE None

VERIFY_PATH == <<"/alosgg/verify">>

VersionUrl == <<"https", "://", "github.com", "/", "version.bin">>

UrlPage == <<"https", "://", "site", "/", "page">>
UrlBare == <<"http", "://", "site">>
UrlNoScheme == <<"site", "/", "page">>

\* ---------------------------------------------------------------- dicts
EmptyDict == [k \in {} |-> <<>>]

SetDefault(d, k, v) == IF k \in DOMAIN d THEN d ELSE d @@ (k :> v)

SetItem(d, k, v) == (k :> v) @@ d

DigitChar == <<"0", "1", "2", "3", "4", "5", "6", "7", "8", "9">>

\* str(n)
Str(n) == LET ds == Decimal(n) IN [i \in 1..Len(ds) |-> DigitChar[ds[i] - 47]]

\* ------------------------------------------------------------ the environment
Callers == {1, 2}

PagePlain == <<Decl("var", <<"t">>, LitShort)>>

PageAB == <<Decl("const", <<"k">>, LitC),
            Decl("const", <<"a">>, LitA),
            Decl("const", <<"b">>, LitB)>>

PageCD == <<Decl("const", <<"c">>, LitB),
            Decl("const", <<"d">>, LitA)>>

PageBlob == <<Blob(TRUE, TRUE, PageAB)>>

Pages == {PagePlain, PageAB, PageCD, PageBlob}

StatusOf(body) == IF body = PageAB THEN 503 ELSE 200

Responses == {[status |-> StatusOf(b), body |-> b] : b \in Pages}

ReplayResponses == {r \in Responses : r.body \in {PagePlain, PageAB}}

VerifyStatuses == {200, 403}

TransportErrors == {"Timeout", "ConnectionError"}

UserAgents == {<<"UA">>}

NoProxy == None

NoTimeout == 0

CallArgs ==
    { [method |-> "GET", url |-> UrlPage, proxies |-> NoProxy,
       headers |-> EmptyDict, timeout |-> NoTimeout],
      [method |-> "POST", url |-> UrlBare, proxies |-> <<"proxy">>,
       headers |-> ("Origin" :> <<"other">>), timeout |-> 9],
      [method |-> "GET", url |-> UrlNoScheme, proxies |-> NoProxy,
       headers |-> EmptyDict, timeout |-> NoTimeout] }

NoResponse == [status |-> 0, body |-> <<>>]

NoAlosResponse ==
    [status |-> 0, body |-> <<>>, flagged |-> FALSE,
     captcha_present |-> FALSE, captcha_solved |-> FALSE]

NoKwargs == [headers |-> EmptyDict, timeout |-> NoTimeout, proxies |-> NoProxy]

\* ------------------------------------------------------------------- state
VARIABLES
    difficulty,      \* self.difficulty
    timeout,         \* self.timeout
    version_check,   \* self.version_check
    cached_names,    \* self._cached_names, None or <<name1, name2>>
    started,         \* number of request() calls started
    pc,              \* per caller: position in request()
    args,            \* per caller: the arguments of its request() call
    kwargs,          \* per caller: kwargs as handed to session.request
    calls,           \* per caller: the HTTP calls of its request() call
    raw,             \* per caller: the response of the original request
    retry,           \* per caller: the response of the replay
    response,        \* per caller: the AlosResponse being built / returned
    payload,         \* per caller: the search surface
    names,           \* per caller: <<name1, name2>>
    vals,            \* per caller: <<m1.group(1), m2.group(1)>>
    nonce,           \* per caller: the loop variable of _solve_proof
    results,         \* per caller: <<r1, r2>>
    outcome,         \* per caller: <<present, solved>> of _solve_challenge
    err,             \* per caller: the exception that left request()
    dstage,          \* _discover_vars on its own: "off", "input" or "output"
    dsurface,        \* _discover_vars on its own: the surface passed
    dresult,         \* _discover_vars on its own: the pair returned
    xstage,          \* extraction on its own: "off", "input", "once", "twice"
    xhtml,           \* extraction on its own: the text passed
    xresult,         \* extraction on its own: the text returned
    xagain           \* extraction on its own: what extraction of xresult returns

inst == <<difficulty, timeout, version_check>>
locals == <<pc, args, kwargs, calls, raw, retry, response, payload, names,
            vals, nonce, results, outcome, err>>
xharness == <<xstage, xhtml, xresult, xagain>>
harness == <<dstage, dsurface, dresult, xharness>>
vars == <<inst, cached_names, started, locals, harness>>

\* what the transport did with a call: a response came back, or it raised
Got(status) == [status |-> status, error |-> "none"]

Raised(e) == [status |-> 0, error |-> e]

\* an HTTP call handed to the transport, with what the transport did
Call(kind, method, url, headers, proxies, tmo, res) ==
    [kind |-> kind, method |-> method, url |-> url, headers |-> headers,
     proxies |-> proxies, timeout |-> tmo,
     status |-> res.status, error |-> res.error]

\* Alos.__init__
Init ==
    /\ difficulty \in 0..MaxDifficulty
    /\ timeout = 4
    /\ version_check \in BOOLEAN
    /\ cached_names = None
    /\ started = 0
    /\ pc = [c \in Callers |-> "idle"]
    /\ args = [c \in Callers |-> CHOOSE a \in CallArgs : a.url = UrlPage]
    /\ kwargs = [c \in Callers |-> NoKwargs]
    /\ calls = [c \in Callers |-> <<>>]
    /\ raw = [c \in Callers |-> NoResponse]
    /\ retry = [c \in Callers |-> NoResponse]
    /\ response = [c \in Callers |-> NoAlosResponse]
    /\ payload = [c \in Callers |-> <<>>]
    /\ names = [c \in Callers |-> <<None, None>>]
    /\ vals = [c \in Callers |-> <<None, None>>]
    /\ nonce = [c \in Callers |-> 0]
    /\ results = [c \in Callers |-> <<0, 0>>]
    /\ outcome = [c \in Callers |-> <<FALSE, FALSE>>]
    /\ err = [c \in Callers |-> "none"]
    /\ dstage = "off"
    /\ dsurface = <<>>
    /\ dresult = <<None, None>>
    /\ xstage = "off"
    /\ xhtml = <<>>
    /\ xresult = <<>>
    /\ xagain = <<>>

\* a caller enters request(method, url, proxies, **kwargs)
Request(c) ==
    /\ pc[c] \in {"idle", "done", "raised"}
    /\ started < MaxRequests
    /\ started' = started + 1
    /\ \E a \in CallArgs : args' = [args EXCEPT ![c] = a]
    /\ pc' = [pc EXCEPT ![c] = IF version_check THEN "version" ELSE "prepare"]
    /\ kwargs' = [kwargs EXCEPT ![c] = NoKwargs]
    /\ calls' = [calls EXCEPT ![c] = <<>>]
    /\ raw' = [raw EXCEPT ![c] = NoResponse]
    /\ retry' = [retry EXCEPT ![c] = NoResponse]
    /\ response' = [response EXCEPT ![c] = NoAlosResponse]
    /\ payload' = [payload EXCEPT ![c] = <<>>]
    /\ names' = [names EXCEPT ![c] = <<None, None>>]
    /\ vals' = [vals EXCEPT ![c] = <<None, None>>]
    /\ nonce' = [nonce EXCEPT ![c] = 0]
    /\ results' = [results EXCEPT ![c] = <<0, 0>>]
    /\ outcome' = [outcome EXCEPT ![c] = <<FALSE, FALSE>>]
    /\ err' = [err EXCEPT ![c] = "none"]
    /\ UNCHANGED <<inst, cached_names, harness>>

\* lines 232-247: the version fetch; its result only produces a warning and
\* a requests.RequestException is swallowed, so what the transport did with
\* the call is not recorded
VersionCheck(c) ==
    /\ pc[c] = "version"
    /\ calls' = [calls EXCEPT ![c] =
           Append(@, Call("version", "GET", VersionUrl, EmptyDict, NoProxy,
                          timeout, Got(0)))]
    /\ pc' = [pc EXCEPT ![c] = "prepare"]
    /\ UNCHANGED <<inst, cached_names, started, args, kwargs, raw, retry,
                   response, payload, names, vals, nonce, results, outcome,
                   err, harness>>

\* lines 248-255
Prepare(c) ==
    /\ pc[c] = "prepare"
    /\ LET domain == OriginOf(args[c].url)
       IN  IF domain = None
           THEN /\ pc' = [pc EXCEPT ![c] = "raised"]
                /\ err' = [err EXCEPT ![c] = "AttributeError"]
                /\ UNCHANGED kwargs
           ELSE /\ \E ua \in UserAgents :
                     LET headers == SetDefault(SetDefault(args[c].headers,
                                        "User-Agent", ua), "Referer", domain)
                     IN  kwargs' = [kwargs EXCEPT ![c] =
                            [headers |-> headers,
                             timeout |-> IF args[c].timeout = NoTimeout
                                         THEN timeout ELSE args[c].timeout,
                             proxies |-> args[c].proxies]]
                /\ pc' = [pc EXCEPT ![c] = "send"]
                /\ UNCHANGED err
    /\ UNCHANGED <<inst, cached_names, started, args, calls, raw, retry,
                   response, payload, names, vals, nonce, results, outcome,
                   harness>>

\* session.request(method, url, **kwargs) of lines 256 and 266
OriginalCall(c, res) ==
    Call("original", args[c].method, args[c].url, kwargs[c].headers,
         kwargs[c].proxies, kwargs[c].timeout, res)

ReplayCall(c, res) == [OriginalCall(c, res) EXCEPT !.kind = "replay"]

\* variant: request() swallows a timeout of its own requests
CaughtByRequestMut(e) == e = "Timeout"

\* request() has no try/except around lines 256 and 266
CaughtByRequest(e) == FALSE

\* lines 256-258: the original request; a transport error leaves request()
SendOriginal(c) ==
    /\ pc[c] = "send"
    /\ \/ \E r \in Responses :
            /\ calls' = [calls EXCEPT ![c] = Append(@, OriginalCall(c, Got(r.status)))]
            /\ raw' = [raw EXCEPT ![c] = r]
            /\ response' = [response EXCEPT ![c] =
                   [NoAlosResponse EXCEPT !.status = r.status, !.body = r.body]]
            /\ pc' = [pc EXCEPT ![c] = "discover"]
            /\ UNCHANGED err
       \/ \E e \in TransportErrors :
            /\ calls' = [calls EXCEPT ![c] = Append(@, OriginalCall(c, Raised(e)))]
            /\ pc' = [pc EXCEPT ![c] = IF CaughtByRequest(e) THEN "done"
                                       ELSE "raised"]
            /\ err' = [err EXCEPT ![c] = IF CaughtByRequest(e) THEN "none" ELSE e]
            /\ UNCHANGED <<raw, response>>
    /\ UNCHANGED <<inst, cached_names, started, args, kwargs, retry, payload,
                   names, vals, nonce, results, outcome, harness>>

\* variant: the test of line 191 lets an empty pair through
NamesFoundMut(pair) == TRUE

\* line 191: not name1 or not name2
NamesFound(pair) == pair[1] # None /\ pair[2] # None

\* lines 189-192
Discover(c) ==
    /\ pc[c] = "discover"
    /\ \E p \in ExtractResults(response[c].body) :
          LET pair == _discover_vars(p)
          IN  /\ payload' = [payload EXCEPT ![c] = p]
              /\ names' = [names EXCEPT ![c] = pair]
              /\ IF ~NamesFound(pair)
                 THEN /\ outcome' = [outcome EXCEPT ![c] = <<FALSE, FALSE>>]
                      /\ pc' = [pc EXCEPT ![c] = "attach"]
                 ELSE /\ pc' = [pc EXCEPT ![c] = "cachetest"]
                      /\ UNCHANGED outcome
    /\ UNCHANGED <<inst, cached_names, started, args, kwargs, calls, raw,
                   retry, response, vals, nonce, results, err, harness>>

\* variant: the cache is taken to be empty on every call
CacheUnsetMut(cn) == TRUE

\* line 193: not self._cached_names
CacheUnset(cn) == cn = None

\* line 193: the test of self._cached_names
CacheTest(c) ==
    /\ pc[c] = "cachetest"
    /\ pc' = [pc EXCEPT ![c] = IF CacheUnset(cached_names) THEN "cachestore"
                               ELSE "cacheload"]
    /\ UNCHANGED <<inst, cached_names, started, args, kwargs, calls, raw,
                   retry, response, payload, names, vals, nonce, results,
                   outcome, err, harness>>

\* line 194
CacheStore(c) ==
    /\ pc[c] = "cachestore"
    /\ cached_names' = names[c]
    /\ pc' = [pc EXCEPT ![c] = "match"]
    /\ UNCHANGED <<inst, started, args, kwargs, calls, raw, retry, response,
                   payload, names, vals, nonce, results, outcome, err, harness>>

\* line 196
CacheLoad(c) ==
    /\ pc[c] = "cacheload"
    /\ names' = [names EXCEPT ![c] = cached_names]
    /\ pc' = [pc EXCEPT ![c] = "match"]
    /\ UNCHANGED <<inst, cached_names, started, args, kwargs, calls, raw,
                   retry, response, payload, vals, nonce, results, outcome,
                   err, harness>>

\* line 181
FirstNonce == 0

\* variant: the test of line 199 is missing
ExtractionFailedMut(m1, m2) == FALSE

\* line 199: not m1 or not m2
ExtractionFailed(m1, m2) == m1 = None \/ m2 = None

\* lines 197-200, and the entry into _solve_proof of line 201
Match(c) ==
    /\ pc[c] = "match"
    /\ LET m1 == SearchValue(names[c][1], payload[c])
           m2 == SearchValue(names[c][2], payload[c])
       IN  IF ExtractionFailed(m1, m2)
           THEN /\ outcome' = [outcome EXCEPT ![c] = <<TRUE, FALSE>>]
                /\ pc' = [pc EXCEPT ![c] = "attach"]
                /\ UNCHANGED vals
           ELSE /\ vals' = [vals EXCEPT ![c] = <<m1, m2>>]
                /\ pc' = [pc EXCEPT ![c] = "solve1"]
                /\ UNCHANGED outcome
    /\ nonce' = [nonce EXCEPT ![c] = FirstNonce]
    /\ UNCHANGED <<inst, cached_names, started, args, kwargs, calls, raw,
                   retry, response, payload, names, results, err, harness>>

\* variant: the search gives up after a few nonces and returns the last one
GivesUpMut(n) == n >= 5

\* line 182: while True, the loop has no other exit than line 185
GivesUp(n) == FALSE

\* lines 182-186, one iteration of the loop of _solve_proof; the first
\* call (line 201) solves m1, the second (line 202) solves m2
SolveStep(c) ==
    /\ pc[c] \in {"solve1", "solve2"}
    /\ LET k == IF pc[c] = "solve1" THEN 1 ELSE 2
       IN  IF ProofOk(vals[c][k], nonce[c], difficulty) \/ GivesUp(nonce[c])
           THEN /\ results' = [results EXCEPT ![c][k] = nonce[c]]
                /\ nonce' = [nonce EXCEPT ![c] = FirstNonce]
                /\ pc' = [pc EXCEPT ![c] = IF k = 1 THEN "solve2" ELSE "verify"]
           ELSE /\ nonce[c] < MaxNonce
                /\ nonce' = [nonce EXCEPT ![c] = @ + 1]
                /\ UNCHANGED <<results, pc>>
    /\ UNCHANGED <<inst, cached_names, started, args, kwargs, calls, raw,
                   retry, response, payload, names, vals, outcome, err, harness>>

\* variant: the two results are sent under each other's header
VerifyHeadersMut(headers, domain, r1, r2) ==
    SetItem(SetItem(SetItem(headers, "Origin", domain),
                    "Result1", Str(r2)), "Result2", Str(r1))

\* variant: v_headers is the caller's dict itself, not a copy
HeadersAfterVerifyMut(headers, domain) == SetItem(headers, "Origin", domain)

\* line 204: v_headers = headers.copy() leaves the dict of kwargs as it is
HeadersAfterVerify(headers, domain) == headers

\* lines 204-208
VerifyHeaders(headers, domain, r1, r2) ==
    SetItem(SetItem(SetItem(headers, "Origin", domain),
                    "Result1", Str(r1)), "Result2", Str(r2))

\* line 208
VerifyCall(c, domain, res) ==
    Call("verify", "POST", domain \o VERIFY_PATH,
         VerifyHeaders(kwargs[c].headers, domain, results[c][1], results[c][2]),
         args[c].proxies, timeout, res)

\* variant: any status code counts as success
IsSuccessMut(status) == status # 0

\* line 209: resp.status_code == 200
IsSuccess(status) == status = 200

\* variant: only a timeout is caught
CaughtByVerifyMut(e) == e = "Timeout"

\* line 210: except Exception
CaughtByVerify(e) == TRUE

\* lines 203-211: the verification call; any exception of the call is caught
Verify(c) ==
    /\ pc[c] = "verify"
    /\ LET domain == OriginOf(args[c].url)
       IN  IF domain = None
           THEN /\ pc' = [pc EXCEPT ![c] = "raised"]
                /\ err' = [err EXCEPT ![c] = "AttributeError"]
                /\ UNCHANGED <<calls, outcome, kwargs>>
           ELSE /\ kwargs' = [kwargs EXCEPT ![c].headers =
                                 HeadersAfterVerify(@, domain)]
                /\ \/ \E status \in VerifyStatuses :
                        /\ calls' = [calls EXCEPT ![c] =
                               Append(@, VerifyCall(c, domain, Got(status)))]
                        /\ outcome' = [outcome EXCEPT ![c] =
                               <<TRUE, IsSuccess(status)>>]
                        /\ pc' = [pc EXCEPT ![c] = "attach"]
                        /\ UNCHANGED err
                   \/ \E e \in TransportErrors :
                        /\ calls' = [calls EXCEPT ![c] =
                               Append(@, VerifyCall(c, domain, Raised(e)))]
                        /\ IF CaughtByVerify(e)
                           THEN /\ outcome' = [outcome EXCEPT ![c] =
                                                  <<TRUE, FALSE>>]
                                /\ pc' = [pc EXCEPT ![c] = "attach"]
                                /\ UNCHANGED err
                           ELSE /\ pc' = [pc EXCEPT ![c] = "raised"]
                                /\ err' = [err EXCEPT ![c] = e]
                                /\ UNCHANGED outcome
    /\ UNCHANGED <<inst, cached_names, started, args, raw, retry,
                   response, payload, names, vals, nonce, results, harness>>

\* lines 260-265 and, when not solved, the return of line 270
Attach(c) ==
    /\ pc[c] = "attach"
    /\ response' = [response EXCEPT ![c].flagged = TRUE,
                                    ![c].captcha_present = outcome[c][1],
                                    ![c].captcha_solved = outcome[c][2]]
    /\ pc' = [pc EXCEPT ![c] = IF outcome[c][2] THEN "replay" ELSE "done"]
    /\ UNCHANGED <<inst, cached_names, started, args, kwargs, calls, raw,
                   retry, payload, names, vals, nonce, results, outcome, err,
                   harness>>

\* variant: the replayed response is handed to the orchestrator again
AfterReplayMut == "discover"

\* line 270: after the replay request() returns
AfterReplay == "done"

\* lines 266-270: the replay; a transport error leaves request()
Replay(c) ==
    /\ pc[c] = "replay"
    /\ \/ \E r \in ReplayResponses :
            /\ calls' = [calls EXCEPT ![c] = Append(@, ReplayCall(c, Got(r.status)))]
            /\ retry' = [retry EXCEPT ![c] = r]
            /\ response' = [response EXCEPT ![c].status = r.status,
                                            ![c].body = r.body,
                                            ![c].captcha_present = TRUE,
                                            ![c].captcha_solved = TRUE]
            /\ pc' = [pc EXCEPT ![c] = AfterReplay]
            /\ UNCHANGED err
       \/ \E e \in TransportErrors :
            /\ calls' = [calls EXCEPT ![c] = Append(@, ReplayCall(c, Raised(e)))]
            /\ pc' = [pc EXCEPT ![c] = IF CaughtByRequest(e) THEN "done"
                                       ELSE "raised"]
            /\ err' = [err EXCEPT ![c] = IF CaughtByRequest(e) THEN "none" ELSE e]
            /\ UNCHANGED <<retry, response>>
    /\ UNCHANGED <<inst, cached_names, started, args, kwargs, raw, payload,
                   names, vals, nonce, results, outcome, harness>>

Next ==
    \E c \in Callers :
        \/ Request(c)
        \/ VersionCheck(c)
        \/ Prepare(c)
        \/ SendOriginal(c)
        \/ Discover(c)
        \/ CacheTest(c)
        \/ CacheStore(c)
        \/ CacheLoad(c)
        \/ Match(c)
        \/ SolveStep(c)
        \/ Verify(c)
        \/ Attach(c)
        \/ Replay(c)

Spec == Init /\ [][Next]_vars

\* sequential use: every request() call is made by the same caller, one
\* after the other
NextSeq ==
    \/ Request(1)
    \/ VersionCheck(1)
    \/ Prepare(1)
    \/ SendOriginal(1)
    \/ Discover(1)
    \/ CacheTest(1)
    \/ CacheStore(1)
    \/ CacheLoad(1)
    \/ Match(1)
    \/ SolveStep(1)
    \/ Verify(1)
    \/ Attach(1)
    \/ Replay(1)

SpecSeq == Init /\ [][NextSeq]_vars

\* the search loop is a running computation: while it can take a step it
\* does take one
SpecSeqFair == SpecSeq /\ WF_vars(SolveStep(1))

\* ------------------------------------------------ _discover_vars on its own
DeclSet ==
    {Decl("const", n, v) : n \in {<<"a">>, <<"b">>},
                           v \in {LitA, LitC, LitD, LitShort}}
        \cup {Decl("var", <<"a">>, LitA), Decl("const", <<"b">>, LitBang)}

Surfaces == UNION {[1..n -> DeclSet] : n \in 0..MaxDecls}

InitDiscover ==
    /\ difficulty = 0
    /\ timeout = 4
    /\ version_check = FALSE
    /\ cached_names = None
    /\ started = 0
    /\ pc = [c \in Callers |-> "idle"]
    /\ args = [c \in Callers |-> CHOOSE a \in CallArgs : a.url = UrlPage]
    /\ kwargs = [c \in Callers |-> NoKwargs]
    /\ calls = [c \in Callers |-> <<>>]
    /\ raw = [c \in Callers |-> NoResponse]
    /\ retry = [c \in Callers |-> NoResponse]
    /\ response = [c \in Callers |-> NoAlosResponse]
    /\ payload = [c \in Callers |-> <<>>]
    /\ names = [c \in Callers |-> <<None, None>>]
    /\ vals = [c \in Callers |-> <<None, None>>]
    /\ nonce = [c \in Callers |-> 0]
    /\ results = [c \in Callers |-> <<0, 0>>]
    /\ outcome = [c \in Callers |-> <<FALSE, FALSE>>]
    /\ err = [c \in Callers |-> "none"]
    /\ dstage = "input"
    /\ dsurface \in Surfaces
    /\ dresult = <<None, None>>
    /\ xstage = "off"
    /\ xhtml = <<>>
    /\ xresult = <<>>
    /\ xagain = <<>>

DiscoverVars ==
    /\ dstage = "input"
    /\ dresult' = _discover_vars(dsurface)
    /\ dstage' = "output"
    /\ UNCHANGED <<inst, cached_names, started, locals, dsurface, xharness>>

NextDiscover == DiscoverVars

SpecDiscover == InitDiscover /\ [][NextDiscover]_vars

\* ------------------------------- _extract_payload_with_challenge on its own
Commented(item) == [item EXCEPT !.cm = TRUE]

LitLong == Lit(69, 40)
LitSlashes == Lit(65, 10) \o Lit(Slash, 2) \o Lit(65, 10)

DecodedOne == <<Decl("const", <<"a">>, LitA)>>
DecodedTwo == <<Decl("const", <<"a">>, LitA), Decl("const", <<"b">>, LitB)>>
DecodedTie == <<Decl("const", <<"a">>, LitB), Decl("const", <<"b">>, LitA)>>
DecodedLong ==
    <<Decl("const", <<"a">>, LitLong), Decl("const", <<"b">>, LitLong)>>
DecodedThree == DecodedTwo \o <<Decl("const", <<"c">>, LitD)>>
DecodedHidden == DecodedOne \o <<Commented(Decl("const", <<"b">>, LitB))>>
DecodedNoted == DecodedTwo \o <<Commented(Decl("const", <<"c">>, LitD))>>
DecodedSlashes == DecodedOne \o <<Decl("const", <<"b">>, LitSlashes)>>

HtmlItems ==
    {Blob(TRUE, TRUE, d) :
        d \in {DecodedOne, DecodedTwo, DecodedTie, DecodedLong, DecodedThree,
               DecodedHidden, DecodedNoted, DecodedSlashes}}
      \cup {Blob(FALSE, TRUE, DecodedTwo), Blob(FALSE, TRUE, DecodedThree),
            Blob(TRUE, FALSE, DecodedThree),
            Commented(Blob(TRUE, TRUE, DecodedThree)),
            Decl("const", <<"a">>, LitA),
            Commented(Decl("const", <<"b">>, LitB)),
            Decl("var", <<"k">>, LitLong)}

Htmls == UNION {[1..n -> HtmlItems] : n \in 0..MaxItems}

InitExtract ==
    /\ difficulty = 0
    /\ timeout = 4
    /\ version_check = FALSE
    /\ cached_names \in {None, <<(<<"a">>), (<<"b">>)>>}
    /\ started = 0
    /\ pc = [c \in Callers |-> "idle"]
    /\ args = [c \in Callers |-> CHOOSE a \in CallArgs : a.url = UrlPage]
    /\ kwargs = [c \in Callers |-> NoKwargs]
    /\ calls = [c \in Callers |-> <<>>]
    /\ raw = [c \in Callers |-> NoResponse]
    /\ retry = [c \in Callers |-> NoResponse]
    /\ response = [c \in Callers |-> NoAlosResponse]
    /\ payload = [c \in Callers |-> <<>>]
    /\ names = [c \in Callers |-> <<None, None>>]
    /\ vals = [c \in Callers |-> <<None, None>>]
    /\ nonce = [c \in Callers |-> 0]
    /\ results = [c \in Callers |-> <<0, 0>>]
    /\ outcome = [c \in Callers |-> <<FALSE, FALSE>>]
    /\ err = [c \in Callers |-> "none"]
    /\ dstage = "off"
    /\ dsurface = <<>>
    /\ dresult = <<None, None>>
    /\ xstage = "input"
    /\ xhtml \in Htmls
    /\ xresult = <<>>
    /\ xagain = <<>>

\* _extract_payload_with_challenge(xhtml)
ExtractOnce ==
    /\ xstage = "input"
    /\ xresult' \in ExtractResults(xhtml)
    /\ xstage' = "once"
    /\ UNCHANGED <<inst, cached_names, started, locals, dstage, dsurface,
                   dresult, xhtml, xagain>>

\* _extract_payload_with_challenge of what the first call returned
ExtractAgain ==
    /\ xstage = "once"
    /\ xagain' \in ExtractResults(xresult)
    /\ xstage' = "twice"
    /\ UNCHANGED <<inst, cached_names, started, locals, dstage, dsurface,
                   dresult, xhtml, xresult>>

NextExtract == ExtractOnce \/ ExtractAgain

SpecExtract == InitExtract /\ [][NextExtract]_vars

\* ================================================================== claims
\* the kinds of the HTTP calls of caller c's request(), the version fetch
\* left out
NetKinds(c) ==
    LET net == SelectSeq(calls[c], LAMBDA x : x.kind # "version")
    IN  [i \in 1..Len(net) |-> net[i].kind]

VerifyCalls(c) == {i \in 1..Len(calls[c]) : calls[c][i].kind = "verify"}

PastDiscovery(c) ==
    pc[c] \notin {"idle", "version", "prepare", "send", "discover"}

ReturnsOriginal(c) ==
    /\ response[c].flagged
    /\ response[c].body = raw[c].body
    /\ response[c].status = raw[c].status

\* the pages whose surface, whichever blob is kept, holds no name pair
NoPairPages ==
    {p \in Pages :
        \A q \in ExtractResults(p) : _discover_vars(q) = <<None, None>>}

\* C1: with version_check disabled, a request() whose original response
\* yields no name pair reports captcha_present = false and captcha_solved =
\* false, issues no HTTP call after the original one, and returns the
\* original response.
C1_NoPairNoExtraCall ==
    \A c \in Callers :
        ( /\ ~version_check
          /\ PastDiscovery(c)
          /\ raw[c] # NoResponse
          /\ raw[c].body \in NoPairPages )
        => /\ pc[c] \in {"attach", "done"}
           /\ outcome[c] = <<FALSE, FALSE>>
           /\ calls[c] = <<OriginalCall(c, Got(raw[c].status))>>
           /\ pc[c] = "done" =>
                 /\ ReturnsOriginal(c)
                 /\ ~response[c].captcha_present
                 /\ ~response[c].captcha_solved

C1_Witness ==
    \E c \in Callers :
        /\ ~version_check
        /\ pc[c] = "done"
        /\ raw[c].body = PagePlain
        /\ _discover_vars(PagePlain) = <<None, None>>
        /\ Len(calls[c]) = 1

\* C2: when the verification call returns 200, request() reports
\* captcha_present = true and captcha_solved = true, replays the original
\* request exactly once after the verification call and returns the
\* replay's response; the replay is not examined again, so there is no
\* second verification or replay even if the replay is a challenge page.
C2_SolvedReplaysOnce ==
    \A c \in Callers :
        (\E i \in VerifyCalls(c) :
            calls[c][i].error = "none" /\ calls[c][i].status = 200)
        => /\ pc[c] \in {"attach", "replay", "done", "raised"}
           /\ outcome[c] = <<TRUE, TRUE>>
           /\ pc[c] \in {"attach", "replay"} =>
                 NetKinds(c) = <<"original", "verify">>
           /\ pc[c] \in {"done", "raised"} =>
                 NetKinds(c) = <<"original", "verify", "replay">>
           /\ pc[c] = "done" =>
                 /\ response[c].flagged
                 /\ response[c].captcha_present
                 /\ response[c].captcha_solved
                 /\ response[c].body = retry[c].body
                 /\ response[c].status = retry[c].status
                 /\ calls[c][Len(calls[c])].status = retry[c].status

C2_Witness ==
    \E c \in Callers :
        /\ pc[c] = "done"
        /\ NetKinds(c) = <<"original", "verify", "replay">>
        /\ retry[c].body = PageAB
        /\ raw[c].body # retry[c].body
        /\ response[c].body = PageAB
        /\ response[c].captcha_solved

\* C3: when both values were extracted and the verification endpoint
\* answers with a status other than 200, request() reports captcha_present
\* = true and captcha_solved = false, issues no replay and returns the
\* original response.
C3_Non200NoReplay ==
    \A c \in Callers :
        (\E i \in VerifyCalls(c) :
            calls[c][i].error = "none" /\ calls[c][i].status # 200)
        => /\ pc[c] \in {"attach", "done"}
           /\ err[c] = "none"
           /\ outcome[c] = <<TRUE, FALSE>>
           /\ NetKinds(c) = <<"original", "verify">>
           /\ pc[c] = "done" =>
                 /\ ReturnsOriginal(c)
                 /\ response[c].captcha_present
                 /\ ~response[c].captcha_solved

C3_Witness ==
    \E c \in Callers :
        /\ pc[c] = "done"
        /\ \E i \in VerifyCalls(c) : calls[c][i].status = 403
        /\ response[c].captcha_present
        /\ ~response[c].captcha_solved
        /\ response[c].body = raw[c].body

\* C4: a transport failure raised by the verification call does not leave
\* request(): the outcome is captcha_present = true, captcha_solved = false,
\* there is no replay and the caller receives the original response.
C4_VerifyFailureCaught ==
    \A c \in Callers :
        (\E i \in VerifyCalls(c) : calls[c][i].error # "none")
        => /\ pc[c] \in {"attach", "done"}
           /\ err[c] = "none"
           /\ outcome[c] = <<TRUE, FALSE>>
           /\ NetKinds(c) = <<"original", "verify">>
           /\ pc[c] = "done" =>
                 /\ ReturnsOriginal(c)
                 /\ response[c].captcha_present
                 /\ ~response[c].captcha_solved

C4_Witness ==
    \E c \in Callers :
        /\ pc[c] = "done"
        /\ \E i \in VerifyCalls(c) : calls[c][i].error = "ConnectionError"
        /\ err[c] = "none"
        /\ response[c].captcha_present
        /\ ~response[c].captcha_solved

ZeroDigits(s, n, d) ==
    LET digest == HexDigest(s \o Decimal(n))
    IN  \A i \in 1..d : i <= Len(digest) /\ digest[i] = 0

FirstProof(s, n, d) ==
    /\ n >= 0
    /\ ZeroDigits(s, n, d)
    /\ \A m \in 0..(n - 1) : ~ZeroDigits(s, m, d)
    /\ d = 0 => n = 0

\* C5: the nonce n returned by _solve_proof for challenge s at difficulty d
\* makes the hex digest of hash(s + decimal(n)) start with d zeros, and no
\* smaller nonce does; for d = 0 it is 0.
C5_NonceIsFirstProof ==
    \A c \in Callers :
        /\ pc[c] \in {"solve2", "verify"} =>
              FirstProof(vals[c][1], results[c][1], difficulty)
        /\ pc[c] = "verify" =>
              FirstProof(vals[c][2], results[c][2], difficulty)

C5_Witness ==
    \E c \in Callers :
        /\ pc[c] = "verify"
        /\ difficulty = 2
        /\ results[c][1] > 0
        /\ results[c][2] > results[c][1]

\* C6: once a name pair is cached, a challenge page that declares its two
\* challenge strings under other names is still resolved: both values are
\* extracted and solved and the verification call is issued.
C6_OtherNamesStillVerified ==
    \A c \in Callers :
        ( /\ pc[c] \in {"attach", "replay", "done"}
          /\ _discover_vars(payload[c]) # <<None, None>>
          /\ names[c] # _discover_vars(payload[c]) )
        => VerifyCalls(c) # {}

\* C7: with concurrent callers the cached pair is assigned once, the first
\* writer's names are never overwritten, and every caller extracts values
\* with the cached pair.
C7_FirstWriterWins ==
    [][ /\ cached_names # None => cached_names' = cached_names
        /\ \A c \in Callers :
              (pc[c] # "match" /\ pc'[c] = "match") => names'[c] = cached_names'
      ]_vars

QualifyingAt(text) ==
    {i \in 1..Len(text) :
        /\ text[i].kw = "const"
        /\ Len(text[i].val) >= 20
        /\ \A j \in 1..Len(text[i].val) : text[i].val[j] \in B64Alphabet}

\* the two real declarations i < j of equal literal length among decoys
\* whose literal lengths differ from that length and from each other
RealPair(text, i, j) ==
    /\ i < j
    /\ {i, j} \subseteq QualifyingAt(text)
    /\ Len(text[i].val) = Len(text[j].val)
    /\ \A k \in (1..Len(text)) \ {i, j} :
          /\ Len(text[k].val) # Len(text[i].val)
          /\ \A l \in (1..Len(text)) \ {i, j, k} :
                Len(text[l].val) # Len(text[k].val)

\* C8: _discover_vars returns (None, None) for a surface with zero or one
\* qualifying declaration, and the names of the two real declarations in
\* scan order for a surface with exactly two qualifying declarations of the
\* same literal length among decoys of other, pairwise different lengths.
C8_DiscoverPair ==
    dstage = "output" =>
        /\ Cardinality(QualifyingAt(dsurface)) <= 1 => dresult = <<None, None>>
        /\ \A i, j \in 1..Len(dsurface) :
              RealPair(dsurface, i, j) =>
                  dresult = <<dsurface[i].name, dsurface[j].name>>

C8_Witness ==
    /\ dstage = "output"
    /\ Len(dsurface) = 4
    /\ RealPair(dsurface, 2, 4)
    /\ QualifyingAt(dsurface) = 1..4
    /\ dresult = <<dsurface[2].name, dsurface[4].name>>
    /\ dresult[1] # dresult[2]

\* C9: a transport error raised by the original request or by the replay
\* leaves request() as that error, and when the original request fails
\* nothing of the orchestration has taken place.
C9_TransportErrorPropagates ==
    \A c \in Callers :
        \A i \in 1..Len(calls[c]) :
            (calls[c][i].kind \in {"original", "replay"}
                /\ calls[c][i].error # "none")
            => /\ pc[c] = "raised"
               /\ err[c] = calls[c][i].error
               /\ i = Len(calls[c])
               /\ calls[c][i].kind = "original" =>
                     /\ payload[c] = <<>>
                     /\ names[c] = <<None, None>>
                     /\ vals[c] = <<None, None>>
                     /\ ~response[c].flagged
                     /\ NetKinds(c) = <<"original">>

C9_Witness ==
    \E c, d \in Callers :
        /\ pc[c] = "raised"
        /\ err[c] = "Timeout"
        /\ NetKinds(c) = <<"original">>
        /\ pc[d] = "raised"
        /\ err[d] = "ConnectionError"
        /\ NetKinds(d) = <<"original", "verify", "replay">>

Malformed(url) ==
    ~( /\ Len(url) >= 3
       /\ url[1] \in {"http", "https"}
       /\ url[2] = "://"
       /\ url[3] # "/" )

\* C10: for a URL without scheme and host request() raises before the
\* original request is handed to the transport, and issues no verification
\* and no replay.
C10_MalformedUrlFailsFast ==
    \A c \in Callers :
        (Malformed(args[c].url) /\ pc[c] \notin {"idle", "version", "prepare"})
        => /\ pc[c] = "raised"
           /\ err[c] = "AttributeError"
           /\ NetKinds(c) = <<>>

C10_Witness ==
    \E c \in Callers :
        /\ args[c].url = UrlNoScheme
        /\ pc[c] = "raised"
        /\ err[c] = "AttributeError"
        /\ calls[c] = <<>>


PastMatch(c) ==
    pc[c] \in {"solve1", "solve2", "verify", "attach", "replay", "done", "raised"}

\* C11: when a name pair is available but the literal of either name cannot
\* be extracted from the surface, the outcome is (present = true, solved =
\* false): the solver does not run, no verification call and no replay is
\* issued, and no exception leaves request().
C11_UnparseableNoSolve ==
    \A c \in Callers :
        ( /\ PastMatch(c)
          /\ names[c] # <<None, None>>
          /\ \/ SearchValue(names[c][1], payload[c]) = None
             \/ SearchValue(names[c][2], payload[c]) = None )
        => /\ pc[c] \in {"attach", "done"}
           /\ err[c] = "none"
           /\ outcome[c] = <<TRUE, FALSE>>
           /\ vals[c] = <<None, None>>
           /\ results[c] = <<0, 0>>
           /\ nonce[c] = 0
           /\ NetKinds(c) = <<"original">>
           /\ pc[c] = "done" =>
                 /\ ReturnsOriginal(c)
                 /\ response[c].captcha_present
                 /\ ~response[c].captcha_solved

C11_Witness ==
    \E c \in Callers :
        /\ pc[c] = "done"
        /\ names[c] = <<(<<"a">>), (<<"b">>)>>
        /\ payload[c] = PageCD
        /\ SearchValue(<<"a">>, PageCD) = None
        /\ response[c].captcha_present
        /\ ~response[c].captcha_solved
        /\ NetKinds(c) = <<"original">>

\* C12: the verification call is issued with the same proxy configuration
\* and the same timeout as the original request of the same request() call,
\* also when the caller overrides the timeout in the request options.
C12_VerifySameProxyTimeout ==
    \A c \in Callers :
        \A i \in VerifyCalls(c) :
            \E j \in 1..Len(calls[c]) :
                /\ calls[c][j].kind = "original"
                /\ calls[c][i].proxies = calls[c][j].proxies
                /\ calls[c][i].timeout = calls[c][j].timeout

\* C13: the verification request is sent only after both solves have
\* returned, at most once per request(), to {origin}/alosgg/verify, with
\* name1's nonce as Result1, name2's nonce as Result2 and Origin = origin.
C13_VerifyAfterBothSolves ==
    \A c \in Callers :
      LET sent == VerifyCalls(c)
      IN
        /\ pc[c] \in {"match", "solve1", "solve2", "verify"} => sent = {}
        /\ Cardinality(sent) <= 1
        /\ \A i \in sent :
              LET v == calls[c][i]
                  origin == SubSeq(args[c].url, 1, 3)
              IN  /\ v.method = "POST"
                  /\ v.url = origin \o <<"/alosgg/verify">>
                  /\ v.headers["Origin"] = origin
                  /\ v.headers["Result1"] = Str(results[c][1])
                  /\ v.headers["Result2"] = Str(results[c][2])
        \* as the post returns: the two results are the solves' answers for
        \* the values of name1 and name2
        /\ (pc[c] = "attach" /\ sent # {}) =>
              /\ vals[c][1] = SearchValue(names[c][1], payload[c])
              /\ vals[c][2] = SearchValue(names[c][2], payload[c])
              /\ ZeroDigits(vals[c][1], results[c][1], difficulty)
              /\ ZeroDigits(vals[c][2], results[c][2], difficulty)

C13_Witness ==
    \E c \in Callers :
        /\ pc[c] = "done"
        /\ "Origin" \in DOMAIN args[c].headers
        /\ \E i \in VerifyCalls(c) :
              /\ calls[c][i].headers["Origin"] = <<"http", "://", "site">>
              /\ calls[c][i].headers["Origin"] # args[c].headers["Origin"]
              /\ calls[c][i].headers["Result1"] = <<"2">>
              /\ calls[c][i].headers["Result2"] = <<"7">>


\* C14: in sequential use the cached pair is unset at construction, is set
\* by the first call in which discovery returns a pair, and keeps that value
\* whatever later responses contain; a call without a pair leaves it alone.
C14_CacheSetOnce ==
    /\ cached_names = None
    /\ [](\A c \in Callers :
             (PastMatch(c) /\ _discover_vars(payload[c]) # <<None, None>>)
                 => cached_names # None)
    /\ [][ /\ cached_names # None => cached_names' = cached_names
           /\ cached_names' # cached_names =>
                 \E c \in Callers :
                     /\ pc[c] = "cachestore"
                     /\ cached_names' = _discover_vars(payload[c])
                     /\ cached_names' # <<None, None>>
         ]_vars

C14_Witness ==
    /\ started = 2
    /\ pc[1] = "done"
    /\ cached_names = <<(<<"a">>), (<<"b">>)>>
    /\ payload[1] = PageCD
    /\ _discover_vars(PageCD) = <<(<<"c">>), (<<"d">>)>>


GroupAt(text, i) ==
    {j \in QualifyingAt(text) : Len(text[j].val) = Len(text[i].val)}

\* the first members of the groups of exactly two qualifying declarations
PairStarts(text) ==
    {i \in QualifyingAt(text) :
        /\ Cardinality(GroupAt(text, i)) = 2
        /\ \A j \in GroupAt(text, i) : i <= j}

\* C15: _discover_vars groups the qualifying declarations by literal length
\* and returns the two names of the first group, in order of the groups'
\* first occurrence, that has exactly two members; groups of one or of three
\* and more are skipped, and without such a group the result is (None, None).
C15_FirstGroupOfTwo ==
    dstage = "output" =>
        IF PairStarts(dsurface) = {}
        THEN dresult = <<None, None>>
        ELSE LET i == CHOOSE x \in PairStarts(dsurface) :
                          \A y \in PairStarts(dsurface) : x <= y
                 j == CHOOSE y \in GroupAt(dsurface, i) : y # i
             IN  dresult = <<dsurface[i].name, dsurface[j].name>>

C15_Witness ==
    /\ dstage = "output"
    /\ dsurface = <<Decl("const", <<"a">>, LitC), Decl("const", <<"b">>, LitA),
                    Decl("const", <<"b">>, LitC), Decl("const", <<"a">>, LitA)>>
    /\ PairStarts(dsurface) = {1, 2}
    /\ dresult = <<(<<"a">>), (<<"b">>)>>

\* C16: whenever _discover_vars returns a pair, its two names are distinct.
C16_PairNamesDistinct ==
    (dstage = "output" /\ dresult # <<None, None>>) => dresult[1] # dresult[2]


\* the prefix is longer than any digest: no nonce at all gives a proof
Unsolvable == difficulty > Len(HexDigest(<<>>))

Solvable(s) == \E n \in 0..MaxNonce : ZeroDigits(s, n, difficulty)

Solving(c) == IF pc[c] = "solve1" THEN vals[c][1] ELSE vals[c][2]

\* C17: _solve_proof has no bound or escape of its own: it returns if and
\* only if some nonce gives a proof; when none does the call never returns
\* and request() issues no verification call, no replay and returns nothing.
C17_NoEscapeFromSearch ==
    /\ [](\A c \in Callers :
             /\ pc[c] \in {"solve1", "solve2"} =>
                   \A m \in 0..(nonce[c] - 1) :
                       ~ZeroDigits(Solving(c), m, difficulty)
             /\ pc[c] \in {"solve2", "verify"} =>
                   ZeroDigits(vals[c][1], results[c][1], difficulty)
             /\ (Unsolvable /\ PastMatch(c) /\ vals[c] # <<None, None>>) =>
                   /\ pc[c] = "solve1"
                   /\ results[c] = <<0, 0>>
                   /\ NetKinds(c) = <<"original">>
                   /\ ~response[c].flagged)
    /\ \A c \in Callers :
          /\ (pc[c] = "solve1" /\ Solvable(vals[c][1])) ~> (pc[c] = "solve2")
          /\ (pc[c] = "solve2" /\ Solvable(vals[c][2])) ~> (pc[c] = "verify")

C17_Witness ==
    /\ Unsolvable
    /\ pc[1] = "solve1"
    /\ vals[1] = <<LitA, LitB>>
    /\ nonce[1] = MaxNonce
    /\ NetKinds(1) = <<"original">>


VerifyOnlyHeaders == {"Origin", "Result1", "Result2"}

\* what a call puts on the wire, apart from which call it is and its answer
Wire(call) ==
    [method |-> call.method, url |-> call.url, headers |-> call.headers,
     proxies |-> call.proxies, timeout |-> call.timeout]

ReplayCalls(c) == {i \in 1..Len(calls[c]) : calls[c][i].kind = "replay"}

OriginalCalls(c) == {i \in 1..Len(calls[c]) : calls[c][i].kind = "original"}

\* C18: the replay is the original request again (same method, URL, headers,
\* proxies and options); building the verification request leaves the
\* original headers alone, so Origin, Result1 and Result2 are in the replay
\* only where the caller supplied them.
C18_ReplayIsOriginal ==
    \A c \in Callers :
        /\ \A i \in ReplayCalls(c) :
              /\ \E o \in OriginalCalls(c) :
                    o < i /\ Wire(calls[c][i]) = Wire(calls[c][o])
              /\ \A h \in VerifyOnlyHeaders \cap DOMAIN calls[c][i].headers :
                    /\ h \in DOMAIN args[c].headers
                    /\ calls[c][i].headers[h] = args[c].headers[h]
        /\ VerifyCalls(c) # {} =>
              \A o \in OriginalCalls(c) :
                  kwargs[c].headers = calls[c][o].headers

C18_Witness ==
    \E c \in Callers :
        /\ pc[c] = "done"
        /\ NetKinds(c) = <<"original", "verify", "replay">>
        /\ \A i \in VerifyCalls(c) :
              VerifyOnlyHeaders \subseteq DOMAIN calls[c][i].headers
        /\ \A i \in ReplayCalls(c) :
              VerifyOnlyHeaders \cap DOMAIN calls[c][i].headers = {}


\* the score as the claim words it
CountFirst(text) == DeclCount(text) * 10000 + TextLen(text)

\* selection by score among the texts given: none with fewer than 2
\* declarations, else one of highest score, else the input itself
SelectedAmong(texts) ==
    LET qual == {t \in texts : DeclCount(t) >= 2}
    IN  /\ xresult \notin (texts \ qual)
        /\ qual = {} => xresult = xhtml
        /\ qual # {} =>
              /\ xresult \in qual
              /\ \A u \in qual : CountFirst(u) <= CountFirst(xresult)

\* C19 as stated: the blobs are counted, measured and returned as decoded.
C19_SelectsByScore ==
    xstage # "input" => SelectedAmong(CandidateBlobs(xhtml))

\* C19: _extract_payload_with_challenge selects among the candidate blobs by
\* score, where a blob's declarations, its length and the surface returned
\* are those of its decoded text after the comment stripping of lines
\* 154-155: fewer than 2 declarations, never selected; else one of highest
\* score (count x 10000 + length) is returned; else the input, unchanged.
C19_SelectsByCleanScore ==
    xstage # "input" => SelectedAmong(Candidates(xhtml))

C19_Witness ==
    /\ xstage = "once"
    /\ xresult = DecodedThree
    /\ DecodedLong \in Candidates(xhtml)
    /\ DecodedHidden \in CandidateBlobs(xhtml)
    /\ TextLen(DecodedLong) > TextLen(DecodedThree)

\* no candidate blob of x qualifies
NoMarkers(x) == \A t \in Candidates(x) : DeclCount(t) < 2

\* C20: on a text x none of whose candidate blobs qualifies, extraction
\* returns x itself, and so does extraction of the result; the operation
\* leaves the session state alone and makes no network call.
C20_IdempotentOnPlain ==
    /\ [](/\ (xstage \in {"once", "twice"} /\ NoMarkers(xhtml)) =>
                xresult = xhtml
          /\ (xstage = "twice" /\ NoMarkers(xhtml)) => xagain = xresult
          /\ xstage # "off" => \A c \in Callers : calls[c] = <<>>)
    /\ [][xstage' # xstage =>
             UNCHANGED <<inst, cached_names, started, locals>>]_vars

C20_Witness ==
    /\ xstage = "twice"
    /\ NoMarkers(xhtml)
    /\ \E i \in 1..Len(xhtml) : xhtml[i].cm
    /\ \E i \in 1..Len(xhtml) : xhtml[i].kind = "blob" /\ ~xhtml[i].cm
    /\ xagain = xhtml

====
